---- MODULE Spec2Model ----
(***************************************************************************)
(* Model of the lineup-selection front end, player_pred_frontend/src/      *)
(* App.tsx: the component state (playersDb, lineups, activeSlot,           *)
(* searchTerm, prediction, loading), its handlers (selectPlayer,           *)
(* handlePredict, fillTeamWithDefaults, the slot / modal / search          *)
(* callbacks) and the two fetches it starts (GET /players on mount,        *)
(* POST /predict from handlePredict).                                      *)
(*                                                                         *)
(* A JavaScript object is modelled as the sequence of its entries          *)
(* [key, value] in insertion order, so that Object.keys / Object.values    *)
(* and the spread-with-computed-key idiom are computed, not assumed.       *)
(* A nullable value is a sequence of length at most one (Null or Some(x)). *)
(***************************************************************************)
EXTENDS Integers, Sequences, FiniteSets, TLC

VARIABLES
    playersDb,      \* useState([])   : sequence of player records
    lineups,        \* useState({ teamA: {}, teamB: {} })
    activeSlot,     \* useState(null) : Null or Some([team, pos])
    searchTerm,     \* useState("")
    prediction,     \* useState(null) : Null or Some(parsed response body)
    loading,        \* useState(false)
    playersFetch,   \* the GET /players promise: "pending" or "settled"
    inflight,       \* POST /predict calls of handlePredict that have not settled
    nRequests,      \* number of POST /predict requests started so far
    nSelects,       \* number of selectPlayer calls that filled a slot so far
    alerted         \* message of the alert() raised by the latest step, "" if none

vars == <<playersDb, lineups, activeSlot, searchTerm, prediction, loading,
          playersFetch, inflight, nRequests, nSelects, alerted>>

\* ------------------------------------------------------------------ bounds
MaxSelects == 1
MaxRequests == 2

\* ------------------------------------------------------------ JS helpers
Null == <<>>
Some(x) == <<x>>

\* the set of the elements of a sequence
Range(seq) == {seq[i] : i \in DOMAIN seq}

\* Object.keys(obj)
ObjectKeys(obj) == [i \in DOMAIN obj |-> obj[i].key]

\* Object.values(obj)
ObjectValues(obj) == [i \in DOMAIN obj |-> obj[i].value]

\* "k in obj"
HasKey(obj, k) == \E i \in DOMAIN obj : obj[i].key = k

\* obj[k], Null when the key is absent (undefined)
Get(obj, k) ==
    IF HasKey(obj, k)
    THEN Some(obj[CHOOSE i \in DOMAIN obj : obj[i].key = k].value)
    ELSE Null

\* { [k]: v } : the spread of the previous object left out
Put_NoSpread(obj, k, v) == <<[key |-> k, value |-> v]>>

\* { ...obj, [k]: v } and obj[k] = v : an existing key keeps its place and
\* takes the new value, a new key is added at the end.
Put(obj, k, v) ==
    IF HasKey(obj, k)
    THEN [i \in DOMAIN obj |->
            IF obj[i].key = k THEN [key |-> k, value |-> v] ELSE obj[i]]
    ELSE Append(obj, [key |-> k, value |-> v])

\* the letters toLowerCase changes among those the names and texts use
LowerOf ==
    [A |-> "a", B |-> "b", C |-> "c", D |-> "d", E |-> "e", F |-> "f",
     G |-> "g", H |-> "h", I |-> "i", J |-> "j", K |-> "k", L |-> "l",
     M |-> "m", N |-> "n", O |-> "o", P |-> "p", Q |-> "q", R |-> "r",
     S |-> "s", T |-> "t", U |-> "u", V |-> "v", W |-> "w", X |-> "x",
     Y |-> "y", Z |-> "z"]

LowerChar(c) == IF c \in DOMAIN LowerOf THEN LowerOf[c] ELSE c

\* String.prototype.toLowerCase, character by character
RECURSIVE LowerCased(_)
LowerCased(s) ==
    IF Len(s) = 0 THEN ""
    ELSE LowerChar(SubSeq(s, 1, 1)) \o LowerCased(SubSeq(s, 2, Len(s)))

\* String.prototype.includes
Includes(s, sub) ==
    \E i \in 1..(Len(s) - Len(sub) + 1) : SubSeq(s, i, i + Len(sub) - 1) = sub

\* --------------------------------------------------------- module constants
\* Object.keys(FORMATION_433)
FORMATION_433 ==
    <<"GK", "RB", "RCB", "LCB", "LB", "RCM", "CDM", "LCM", "RW", "ST", "LW">>

TEAM_A_DEFAULT ==
    <<"Alisson", "Virgil van Dijk", "Michael Carrick",
      "Damien Delaney", "Andrew Robertson", "Alexis Mac Allister",
      "Dominik Szoboszlai", "Ryan Gravenberch", "Mohamed Salah",
      "Luis Díaz", "Darwin Núñez">>

TEAM_B_DEFAULT ==
    <<"Ederson", "Malo Gusto", "Manuel Akanji",
      "Kyle Walker", "Josko Gvardiol", "Rodri",
      "Kevin De Bruyne", "Bernardo Silva", "Phil Foden",
      "Jeremy Doku", "Erling Haaland">>

\* FORMATION_ORDER as it would read had "ST" been renamed in it alone
FORMATION_ORDER_Drift ==
    <<"GK", "RB", "RCB", "LCB", "LB", "RCM", "CDM", "LCM", "RW", "CF", "LW">>

FORMATION_ORDER ==
    <<"GK", "RB", "RCB", "LCB", "LB", "RCM", "CDM", "LCM", "RW", "ST", "LW">>

CountMessage == "Both teams must have 11 players selected!"
FailMessage == "Failed to reach prediction engine."

\* The lineup size handlePredict requires of each team
LineupSize == 11

\* ------------------------------------------------------------------ inputs
Player(n, t) == [name |-> n, team |-> t]

\* data.players of a GET /players response that holds every name of
\* TEAM_A_DEFAULT and TEAM_B_DEFAULT and one more player
CatalogFull ==
    <<Player("Alisson", "Liverpool"),
      Player("Virgil van Dijk", "Liverpool"),
      Player("Michael Carrick", "Liverpool"),
      Player("Damien Delaney", "Liverpool"),
      Player("Andrew Robertson", "Liverpool"),
      Player("Alexis Mac Allister", "Liverpool"),
      Player("Dominik Szoboszlai", "Liverpool"),
      Player("Ryan Gravenberch", "Liverpool"),
      Player("Mohamed Salah", "Liverpool"),
      Player("Luis Díaz", "Liverpool"),
      Player("Darwin Núñez", "Liverpool"),
      Player("Ederson", "Manchester City"),
      Player("Malo Gusto", "Manchester City"),
      Player("Manuel Akanji", "Manchester City"),
      Player("Kyle Walker", "Manchester City"),
      Player("Josko Gvardiol", "Manchester City"),
      Player("Rodri", "Manchester City"),
      Player("Kevin De Bruyne", "Manchester City"),
      Player("Bernardo Silva", "Manchester City"),
      Player("Phil Foden", "Manchester City"),
      Player("Jeremy Doku", "Manchester City"),
      Player("Erling Haaland", "Manchester City"),
      Player("Bukayo Saka", "Arsenal")>>

\* the same response without "Michael Carrick", whom TEAM_A_DEFAULT names
CatalogPartial ==
    SelectSeq(CatalogFull, LAMBDA p : p.name # "Michael Carrick")

\* the responses GET /players may give
Catalogs == {CatalogFull, CatalogPartial}

\* the slots the user clicks
SlotInputs ==
    {[team |-> "teamA", pos |-> "GK"],
     [team |-> "teamA", pos |-> "RCB"],
     [team |-> "teamB", pos |-> "GK"]}

\* the texts the user types in the search box
SearchInputs == {"", "CITY"}

\* the names of the listed players the user clicks
PlayerInputs == {"Alisson", "Ederson"}

\* every string the filter lower-cases, with its lower-cased form computed once
FilterStrings ==
    {CatalogFull[i].name : i \in DOMAIN CatalogFull}
        \cup {CatalogFull[i].team : i \in DOMAIN CatalogFull}
        \cup SearchInputs

LowerCasedOf == [s \in FilterStrings |-> LowerCased(s)]

ToLowerCase(s) ==
    IF s \in FilterStrings THEN LowerCasedOf[s] ELSE LowerCased(s)

\* what the POST /predict fetch can do: reject (network failure), or resolve
\* with a response whose body parses as JSON or not
FetchOutcomes ==
    {[settles |-> "rejects", status |-> 0, json |-> FALSE],
     [settles |-> "resolves", status |-> 200, json |-> TRUE],
     [settles |-> "resolves", status |-> 422, json |-> TRUE],
     [settles |-> "resolves", status |-> 502, json |-> FALSE]}

\* the value response.json() resolves to: the PredictionResult of a 200, the
\* error object of any other status; req names the request it answers
ParsedBody(req, status) ==
    [kind |-> IF status = 200 THEN "PredictionResult" ELSE "ErrorObject",
     req |-> req]

\* ------------------------------------------------------------------- state
Init ==
    /\ playersDb = <<>>
    /\ lineups = [teamA |-> <<>>, teamB |-> <<>>]
    /\ activeSlot = Null
    /\ searchTerm = ""
    /\ prediction = Null
    /\ loading = FALSE
    /\ playersFetch = "pending"
    /\ inflight = {}
    /\ nRequests = 0
    /\ nSelects = 0
    /\ alerted = ""

\* --------------------------------------------------- GET /players (useEffect)
PlayersLoaded(data) ==
    /\ playersFetch = "pending"
    /\ playersFetch' = "settled"
    /\ playersDb' = data
    /\ alerted' = ""
    /\ UNCHANGED <<lineups, activeSlot, searchTerm, prediction, loading,
                   inflight, nRequests, nSelects>>

PlayersLoadFailed ==
    /\ playersFetch = "pending"
    /\ playersFetch' = "settled"
    /\ alerted' = ""
    /\ UNCHANGED <<playersDb, lineups, activeSlot, searchTerm, prediction,
                   loading, inflight, nRequests, nSelects>>

\* ------------------------------------------------------- modal and search
\* onClick of a pitch slot
OpenSlot(team, pos) ==
    /\ activeSlot' = Some([team |-> team, pos |-> pos])
    /\ alerted' = ""
    /\ UNCHANGED <<playersDb, lineups, searchTerm, prediction, loading,
                   playersFetch, inflight, nRequests, nSelects>>

\* onClick of the modal's close button
CloseModal ==
    /\ activeSlot # Null
    /\ activeSlot' = Null
    /\ alerted' = ""
    /\ UNCHANGED <<playersDb, lineups, searchTerm, prediction, loading,
                   playersFetch, inflight, nRequests, nSelects>>

\* onChange of the modal's search box
SetSearchTerm(text) ==
    /\ activeSlot # Null
    /\ searchTerm' = text
    /\ alerted' = ""
    /\ UNCHANGED <<playersDb, lineups, activeSlot, prediction, loading,
                   playersFetch, inflight, nRequests, nSelects>>

\* the predicate of the filter: the search text occurs in the name or in the
\* team, case ignored
Matches(p) ==
    \/ Includes(ToLowerCase(p.name), ToLowerCase(searchTerm))
    \/ Includes(ToLowerCase(p.team), ToLowerCase(searchTerm))

filteredPlayers == SelectSeq(playersDb, Matches)

\* the players the modal lists, one button each
ListedPlayers ==
    {filteredPlayers[i] : i \in DOMAIN filteredPlayers}

\* the listed players whose button the user clicks: the elements of
\* filteredPlayers with a name of PlayerInputs
ClickedPlayers ==
    {p \in Range(playersDb) : p.name \in PlayerInputs /\ Matches(p)}

\* ------------------------------------------------------------ selectPlayer
selectPlayer(player) ==
    IF activeSlot = Null
    THEN /\ alerted' = ""
         /\ UNCHANGED <<playersDb, lineups, activeSlot, searchTerm, prediction,
                        loading, playersFetch, inflight, nRequests, nSelects>>
    ELSE /\ nSelects < MaxSelects
         /\ lineups' = [lineups EXCEPT ![activeSlot[1].team] =
                            Put(lineups[activeSlot[1].team], activeSlot[1].pos, player)]
         /\ activeSlot' = Null
         /\ searchTerm' = ""
         /\ nSelects' = nSelects + 1
         /\ alerted' = ""
         /\ UNCHANGED <<playersDb, prediction, loading, playersFetch,
                        inflight, nRequests>>

\* ----------------------------------------------------- fillTeamWithDefaults
\* a find that makes up a record for a name the catalog does not hold
Find_Placeholder(db, playerName) ==
    IF \E i \in DOMAIN db : db[i].name = playerName
    THEN Some(db[CHOOSE i \in DOMAIN db :
                    /\ db[i].name = playerName
                    /\ \A j \in 1..(i - 1) : db[j].name # playerName])
    ELSE Some(Player(playerName, ""))

\* playersDb.find(p => p.name === playerName): the first match, Null if none
Find(db, playerName) ==
    IF \E i \in DOMAIN db : db[i].name = playerName
    THEN Some(db[CHOOSE i \in DOMAIN db :
                    /\ db[i].name = playerName
                    /\ \A j \in 1..(i - 1) : db[j].name # playerName])
    ELSE Null

\* filledTeam after the first n iterations of FORMATION_ORDER.forEach
RECURSIVE FilledTeam(_, _, _)
FilledTeam(db, defaultNames, n) ==
    IF n = 0 THEN <<>>
    ELSE LET before == FilledTeam(db, defaultNames, n - 1)
             playerObj == Find(db, defaultNames[n])
         IN  IF playerObj # Null
             THEN Put(before, FORMATION_ORDER[n], playerObj[1])
             ELSE before

fillTeamWithDefaults(teamKey, defaultNames) ==
    /\ lineups' = [lineups EXCEPT ![teamKey] =
                        FilledTeam(playersDb, defaultNames, Len(FORMATION_ORDER))]
    /\ alerted' = ""
    /\ UNCHANGED <<playersDb, activeSlot, searchTerm, prediction, loading,
                   playersFetch, inflight, nRequests, nSelects>>

\* ------------------------------------------------------------ handlePredict
\* Object.values(lineup).map(p => p.name)
Names(lineup) ==
    [i \in DOMAIN ObjectValues(lineup) |-> ObjectValues(lineup)[i].name]

\* the length test with && in place of ||
TooFew_And(teamA, teamB) ==
    Len(teamA) < LineupSize /\ Len(teamB) < LineupSize

\* teamA.length < 11 || teamB.length < 11
TooFew(teamA, teamB) ==
    Len(teamA) < LineupSize \/ Len(teamB) < LineupSize

\* a predict button that is never disabled
PredictDisabled_Never == FALSE

\* disabled={loading} of the predict button
PredictDisabled == loading

\* a finally block that leaves loading as it is
LoadingAfterFinally_Kept == loading

\* finally { setLoading(false) }
LoadingAfterFinally == FALSE

\* the click on the predict button
handlePredict ==
    /\ ~PredictDisabled
    /\ LET teamA == Names(lineups.teamA)
           teamB == Names(lineups.teamB)
       IN  IF TooFew(teamA, teamB)
           THEN /\ alerted' = CountMessage
                /\ UNCHANGED <<playersDb, lineups, activeSlot, searchTerm,
                               prediction, loading, playersFetch, inflight,
                               nRequests, nSelects>>
           ELSE /\ nRequests < MaxRequests
                /\ loading' = TRUE
                /\ nRequests' = nRequests + 1
                /\ inflight' = inflight \cup
                       {[id |-> nRequests + 1,
                         body |-> [team_a_players |-> teamA,
                                   team_b_players |-> teamB],
                         awaiting |-> "fetch",
                         status |-> 0,
                         json |-> FALSE]}
                /\ alerted' = ""
                /\ UNCHANGED <<playersDb, lineups, activeSlot, searchTerm,
                               prediction, playersFetch, nSelects>>

\* "await fetch(...)" settles: on a rejection the catch block alerts and the
\* finally block clears loading; on a response the function awaits its json()
FetchSettles(r, outcome) ==
    /\ r \in inflight
    /\ r.awaiting = "fetch"
    /\ IF outcome.settles = "rejects"
       THEN /\ inflight' = inflight \ {r}
            /\ alerted' = FailMessage
            /\ loading' = LoadingAfterFinally
            /\ UNCHANGED <<playersDb, lineups, activeSlot, searchTerm,
                           prediction, playersFetch, nRequests, nSelects>>
       ELSE /\ inflight' = (inflight \ {r}) \cup
                   {[r EXCEPT !.awaiting = "json",
                              !.status = outcome.status,
                              !.json = outcome.json]}
            /\ alerted' = ""
            /\ UNCHANGED <<playersDb, lineups, activeSlot, searchTerm,
                           prediction, loading, playersFetch, nRequests,
                           nSelects>>

\* "await response.json()" settles: the parsed body is stored as the
\* prediction, a parse failure goes to the catch block; finally clears loading
JsonSettles(r) ==
    /\ r \in inflight
    /\ r.awaiting = "json"
    /\ inflight' = inflight \ {r}
    /\ loading' = LoadingAfterFinally
    /\ IF r.json
       THEN /\ prediction' = Some(ParsedBody(r.id, r.status))
            /\ alerted' = ""
       ELSE /\ prediction' = prediction
            /\ alerted' = FailMessage
    /\ UNCHANGED <<playersDb, lineups, activeSlot, searchTerm, playersFetch,
                   nRequests, nSelects>>

\* ------------------------------------------------------------ specification
Next ==
    \/ \E data \in Catalogs : PlayersLoaded(data)
    \/ PlayersLoadFailed
    \/ \E s \in SlotInputs : OpenSlot(s.team, s.pos)
    \/ CloseModal
    \/ \E text \in SearchInputs : SetSearchTerm(text)
    \/ \E player \in ClickedPlayers : selectPlayer(player)
    \/ fillTeamWithDefaults("teamA", TEAM_A_DEFAULT)
    \/ fillTeamWithDefaults("teamB", TEAM_B_DEFAULT)
    \/ handlePredict
    \/ \E r \in inflight, outcome \in FetchOutcomes : FetchSettles(r, outcome)
    \/ \E r \in inflight : JsonSettles(r)

Spec == Init /\ [][Next]_vars

\* the fetch and the parsing of its response eventually settle
FairSpec ==
    /\ Spec
    /\ WF_vars(\E r \in inflight, outcome \in FetchOutcomes : FetchSettles(r, outcome))
    /\ WF_vars(\E r \in inflight : JsonSettles(r))

\* ------------------------------------------------------------------ claims
NoRepeat(seq) == \A i, j \in DOMAIN seq : i # j => seq[i] # seq[j]

Ederson == Player("Ederson", "Manchester City")
Alisson == Player("Alisson", "Liverpool")

\* C1: a POST /predict request is sent only when both lineups hold 11
\* players, so every request carries exactly 11 names for each team; an
\* attempt with fewer than 11 players in either lineup raises the count
\* message, sends nothing and leaves loading and prediction as they were.
C1_PredictNeedsEleven ==
    [][ /\ \A r \in inflight' :
              /\ Len(r.body.team_a_players) = 11
              /\ Len(r.body.team_b_players) = 11
        /\ nRequests' # nRequests =>
              /\ Len(ObjectValues(lineups.teamA)) = 11
              /\ Len(ObjectValues(lineups.teamB)) = 11
        /\ ( /\ handlePredict
             /\ \/ Len(ObjectValues(lineups.teamA)) < 11
                \/ Len(ObjectValues(lineups.teamB)) < 11 ) =>
              /\ alerted' = CountMessage
              /\ inflight' = inflight
              /\ nRequests' = nRequests
              /\ loading' = loading
              /\ prediction' = prediction
        /\ alerted' = CountMessage =>
              \/ Len(ObjectValues(lineups.teamA)) < 11
              \/ Len(ObjectValues(lineups.teamB)) < 11
      ]_vars

\* a request went out with 11 and 11, and a later attempt with 10 players in
\* team A was turned down
C1_Witness ==
    /\ nRequests >= 1
    /\ alerted = CountMessage
    /\ Len(lineups.teamA) = 10
    /\ Len(lineups.teamB) = 11

\* C2: no POST /predict request carries the same name twice in
\* team_a_players or twice in team_b_players.
C2_NoRepeatedNameSent ==
    \A r \in inflight :
        /\ NoRepeat(r.body.team_a_players)
        /\ NoRepeat(r.body.team_b_players)

\* C3: in every POST /predict request the names of team_a_players and the
\* names of team_b_players are disjoint.
C3_SidesDisjoint ==
    \A r \in inflight :
        Range(r.body.team_a_players) \cap Range(r.body.team_b_players) = {}

\* the shape of one team's lineup: keys among the 11 slots, no key twice,
\* at most 11 entries
LineupShape(lineup) ==
    /\ Range(ObjectKeys(lineup)) \subseteq
          {"GK", "RB", "RCB", "LCB", "LB", "RCM", "CDM", "LCM", "RW", "ST", "LW"}
    /\ Cardinality(Range(ObjectKeys(lineup))) = Len(ObjectKeys(lineup))
    /\ Len(lineup) <= 11

\* C4: each lineup maps a subset of the 11 fixed slots to players (no other
\* key, one player per slot, at most 11 entries), and a selection for a slot
\* that is already filled replaces its occupant without adding an entry.
C4_LineupShape ==
    [][ /\ LineupShape(lineups'.teamA) /\ LineupShape(lineups'.teamB)
        /\ ( /\ activeSlot # Null
             /\ nSelects' = nSelects + 1
             /\ HasKey(lineups[activeSlot[1].team], activeSlot[1].pos) ) =>
              LET team == activeSlot[1].team
                  pos == activeSlot[1].pos
              IN  /\ ObjectKeys(lineups'[team]) = ObjectKeys(lineups[team])
                  /\ Get(lineups'[team], pos) \in
                        {Some(p) : p \in ListedPlayers}
      ]_vars

\* team A was filled from the defaults (10 found) and its goalkeeper was then
\* replaced by a selection: still 10 entries
C4_Witness ==
    /\ Len(lineups.teamA) = 10
    /\ nSelects = 1
    /\ Get(lineups.teamA, "GK") = Some(Ederson)

\* C5: every player held in either lineup is an element of playersDb, and
\* every name in a POST /predict request is the name of a player of playersDb.
C5_PlayersFromCatalog ==
    /\ \A team \in {"teamA", "teamB"} :
          Range(ObjectValues(lineups[team])) \subseteq Range(playersDb)
    /\ \A r \in inflight :
          Range(r.body.team_a_players) \cup Range(r.body.team_b_players)
              \subseteq {playersDb[i].name : i \in DOMAIN playersDb}

\* a request is in flight while team A, filled from the defaults, has no
\* player at RCB because "Michael Carrick" is not in the catalog
C5_Witness ==
    /\ inflight # {}
    /\ Len(lineups.teamA) = 10
    /\ ~HasKey(lineups.teamA, "RCB")

\* C6: after a failed request the prediction state does not show a result
\* obtained by an earlier request.
C6_NoStaleAfterFailure ==
    alerted = FailMessage =>
        ~(prediction # Null /\ prediction[1].req < nRequests)

\* C7: the prediction state is set only by a successful response, never by
\* an error object.
C7_PredictionOnlyFromSuccess ==
    prediction # Null => prediction[1].kind = "PredictionResult"

\* C8: at most one request is in flight, loading is true exactly while one
\* is, a request starts only when none is in flight, and a prediction that
\* is stored answers the most recently started request.
C8_OneRequestAtATime ==
    [][ /\ Cardinality(inflight) <= 1 /\ (loading <=> inflight # {})
        /\ Cardinality(inflight') <= 1 /\ (loading' <=> inflight' # {})
        /\ nRequests' # nRequests => inflight = {}
        /\ prediction' # prediction =>
              /\ prediction' # Null
              /\ prediction'[1].req = nRequests
      ]_vars

\* the second request has been answered and its answer is the one stored
C8_Witness ==
    /\ nRequests = 2
    /\ ~loading
    /\ prediction # Null
    /\ prediction[1].req = 2

\* C9: whenever loading is true it is eventually false again.
C9_LoadingEventuallyCleared == loading ~> ~loading

\* a request failed and loading is false again
C9_Witness ==
    /\ nRequests >= 1
    /\ alerted = FailMessage
    /\ ~loading

\* C10: selectPlayer(player) changes nothing when no slot is active; with
\* slot (team, pos) active it sets that slot to player, leaves the other slots
\* of the team, the other team, playersDb, prediction and loading as they
\* were, and resets activeSlot to null and searchTerm to "".
C10_SelectPlayerFrame ==
    [][ \A player \in ClickedPlayers :
          selectPlayer(player) =>
            IF activeSlot = Null
            THEN UNCHANGED <<playersDb, lineups, activeSlot, searchTerm,
                             prediction, loading>>
            ELSE LET team == activeSlot[1].team
                     pos == activeSlot[1].pos
                     other == IF team = "teamA" THEN "teamB" ELSE "teamA"
                 IN  /\ Get(lineups'[team], pos) = Some(player)
                     /\ \A q \in Range(FORMATION_433) \ {pos} :
                           Get(lineups'[team], q) = Get(lineups[team], q)
                     /\ Len(lineups'[team]) <= Len(lineups[team]) + 1
                     /\ lineups'[other] = lineups[other]
                     /\ activeSlot' = Null
                     /\ searchTerm' = ""
                     /\ UNCHANGED <<playersDb, prediction, loading>>
      ]_vars

\* team A was filled from the defaults and a selection then put a player in
\* its empty RCB slot, closing the modal and clearing the search
C10_Witness ==
    /\ Len(lineups.teamA) = 11
    /\ Get(lineups.teamA, "RCB") = Some(Ederson)
    /\ Get(lineups.teamA, "GK") = Some(Alisson)
    /\ nSelects = 1
    /\ activeSlot = Null
    /\ searchTerm = ""

====
